---- MODULE Spec2Model ----
(***************************************************************************)
(* A model of uk_streamer_downloader.py: the UKStreamerDownloader class    *)
(* (provider detection, the three page extractors with their manifest      *)
(* scan, the key cache and key resolver, the download / remux / rename     *)
(* step) and main().                                                       *)
(*                                                                         *)
(* Text is modelled as a sequence of pieces.  Key answers, element texts   *)
(* and protection headers are sequences of single characters, so that     *)
(* str.strip(), str.lower() and "':' in s" are computed.  URLs and XML    *)
(* tags are sequences of chunks chosen so that no marker the code looks    *)
(* for straddles two chunks; "marker in url" is then chunk membership.     *)
(* Python's None is the one-chunk sequence NoneVal.                        *)
(***************************************************************************)
EXTENDS Integers, Sequences, FiniteSets, TLC

VARIABLES
    pc,               \* position of the process: main / process_url step
    runs,             \* number of times the program has been started
    url,              \* the URL handed to process_url
    driver,           \* self.driver is set (a browser session is open)
    has_widevine_data,\* the attribute self.widevine_data exists
    widevine_data,    \* self.widevine_data: header -> key
    proxy_file,       \* WIDEVINE_PROXY_DATA_FILE on disk
    service_name,     \* process_url local
    data,             \* process_url local: what the extractor returned
    drm_key,          \* process_url local: what get_drm_key returned
    answer,           \* the operator's raw answer to the prompt of this job
    subtitle_path,    \* process_url local
    output_name,      \* process_url local
    tool,             \* what the download tool and the file system did
    outcome,          \* how process_url ended
    calls,            \* how often each collaborator was used in this run
    response,         \* the manifest body handed to the protection parser
    network_items,    \* the entry names handed to the entry scan
    track_src         \* the src of the page's first subtitle track

vars == <<pc, runs, url, driver, has_widevine_data, widevine_data, proxy_file,
          service_name, data, drm_key, answer, subtitle_path, output_name, tool,
          outcome, calls, response, network_items, track_src>>

(***************************************************************************)
(* Bounds                                                                  *)
(***************************************************************************)
MaxNodes == 3        \* elements below the root of a manifest (parser runs)
MaxJobNodes == 1     \* elements below the root of a manifest inside a job
MaxAnswerLen == 2    \* characters of an operator answer (resolver runs)
MaxJobAnswerLen == 1 \* characters of an operator answer inside a job
MaxRuns == 2         \* program starts (resolver runs)
MaxNet == 3           \* recorded network timing entries (entry scan runs)
MaxJobNet == 2       \* recorded network timing entries inside a job

(***************************************************************************)
(* Python values                                                           *)
(***************************************************************************)
NoneVal == <<"None">>

Truthy(v) == v # NoneVal /\ v # <<>>

RECURSIVE LStrip(_)
LStrip(s) == IF s = <<>> THEN s
             ELSE IF Head(s) = " " THEN LStrip(Tail(s)) ELSE s

RECURSIVE RStrip(_)
RStrip(s) == IF s = <<>> THEN s
             ELSE IF s[Len(s)] = " " THEN RStrip(SubSeq(s, 1, Len(s) - 1)) ELSE s

Strip(s) == RStrip(LStrip(s))

LowerPiece(c) == CASE c = "A" -> "a"
                   [] c = "B" -> "b"
                   [] c = "PSSH" -> "pssh"
                   [] c = "ContentProtection" -> "contentprotection"
                   [] OTHER -> c

Lower(s) == [i \in DOMAIN s |-> LowerPiece(s[i])]

Contains(s, piece) == \E i \in DOMAIN s : s[i] = piece

RECURSIVE SeqsUpTo(_, _)
SeqsUpTo(S, n) == IF n = 0 THEN {<<>>}
                  ELSE LET shorter == SeqsUpTo(S, n - 1)
                       IN  shorter \cup {Append(s, c) : s \in shorter, c \in S}

(***************************************************************************)
(* The manifest: the elements below the root in document order.  Each has  *)
(* its parent (0 is the root), its tag, its schemeIdUri and its text.      *)
(***************************************************************************)
TagContentProtection == <<"{urn:mpeg:dash:schema:mpd:2011}", "ContentProtection">>
TagCencPssh == <<"{urn:mpeg:cenc:2013}", "pssh">>
TagOtherPssh == <<"{urn:microsoft:playready}", "PSSH">>
WidevineScheme == "urn:uuid:edef8ba9-79d6-4ace-a3c8-27dcd51d21ed"
PlayReadyScheme == "urn:uuid:9a04f079-9840-4286-ab92-e65be0885f95"
NoAttr == "none"

ElementTexts == {NoneVal, <<" ">>, <<" ", "A", " ">>, <<"B">>}

ElementKinds ==
    [tag : {TagContentProtection}, scheme : {WidevineScheme, PlayReadyScheme},
     text : {NoneVal}]
    \cup [tag : {TagCencPssh, TagOtherPssh}, scheme : {NoAttr}, text : ElementTexts]

RECURSIVE IsAncestor(_, _, _)
IsAncestor(nodes, a, i) ==
    IF i = 0 THEN FALSE
    ELSE nodes[i].parent = a \/ IsAncestor(nodes, a, nodes[i].parent)

\* the parents a next element in document order can have
OpenElements(nodes) ==
    IF nodes = <<>> THEN {0}
    ELSE {0, Len(nodes)} \cup {a \in 1..Len(nodes) : IsAncestor(nodes, a, Len(nodes))}

\* the parent pointers n elements in document order can have
Shapes(n) ==
    {ps \in [1..n -> 0..(n - 1)] :
        \A i \in 1..n :
            ps[i] \in OpenElements([j \in 1..(i - 1) |-> [parent |-> ps[j]]])}

\* the documents with n elements below the root
TreesOf(n) ==
    {[i \in 1..n |-> [parent |-> ps[i], tag |-> ks[i].tag, scheme |-> ks[i].scheme,
                      text |-> ks[i].text]] :
        ps \in Shapes(n), ks \in [1..n -> ElementKinds]}

RECURSIVE TreesUpTo(_)
TreesUpTo(n) ==
    IF n = 0 THEN {<<>>} ELSE TreesUpTo(n - 1) \cup TreesOf(n)

\* requests.get + ET.fromstring: the body parsed, or an exception
Responses(n) == {[ok |-> FALSE, nodes |-> <<>>]} \cup [ok : {TRUE}, nodes : TreesUpTo(n)]

NoResponse == [ok |-> FALSE, nodes |-> <<>>]

\* the elements of a set of positions, in document order
RECURSIVE Ascending(_)
Ascending(S) ==
    IF S = {} THEN <<>>
    ELSE LET m == CHOOSE x \in S : \A y \in S : x <= y
         IN  <<m>> \o Ascending(S \ {m})

\* root.findall(".//{mpd}ContentProtection[@schemeIdUri='<widevine>']")
ProtectionElements(nodes) ==
    Ascending({i \in DOMAIN nodes : nodes[i].tag = TagContentProtection
                                     /\ nodes[i].scheme = WidevineScheme})

\* elem.findall(".//{cenc}pssh")
PsshElements(nodes, elem) ==
    Ascending({i \in DOMAIN nodes : nodes[i].tag = TagCencPssh
                                     /\ IsAncestor(nodes, elem, i)})

RECURSIVE PsshVisits(_, _)
PsshVisits(nodes, elems) ==
    IF elems = <<>> THEN <<>>
    ELSE PsshElements(nodes, Head(elems)) \o PsshVisits(nodes, Tail(elems))

\* a parser that keeps the text as it stands
ExactAssign_Raw(current, text) == text

\* the nested for loops: pssh = pssh_elem.text.strip(); None has no strip()
ExactAssign(current, text) == Strip(text)

RECURSIVE ExactScan(_, _, _)
ExactScan(nodes, visits, current) ==
    IF visits = <<>> THEN [pssh |-> current, raised |-> FALSE]
    ELSE IF nodes[Head(visits)].text = NoneVal
         THEN [pssh |-> current, raised |-> TRUE]
         ELSE ExactScan(nodes, Tail(visits),
                        ExactAssign(current, nodes[Head(visits)].text))

\* for elem in root.findall(".//*"): first tag holding "pssh" with text
FallbackMatches(nodes) ==
    Ascending({i \in DOMAIN nodes : Contains(Lower(nodes[i].tag), "pssh")
                                     /\ Truthy(nodes[i].text)})

FallbackScan(nodes, current) ==
    LET hits == FallbackMatches(nodes)
    IN  IF hits = <<>> THEN current ELSE Strip(nodes[Head(hits)].text)

\* the try block of the extractors: raised exceptions end the block
ParsePssh(resp) ==
    IF ~resp.ok THEN NoneVal
    ELSE LET exact == ExactScan(resp.nodes,
                                PsshVisits(resp.nodes, ProtectionElements(resp.nodes)),
                                NoneVal)
         IN  IF exact.raised THEN exact.pssh
             ELSE IF Truthy(exact.pssh) THEN exact.pssh
             ELSE FallbackScan(resp.nodes, exact.pssh)

(***************************************************************************)
(* URLs                                                                    *)
(***************************************************************************)
Scheme == "https://"

ProviderMarkers == {"channel4.com", "all4.com", "itv.com", "itvx.com",
                    "channel5.com", "my5.tv"}

ProviderUrls ==
    {<<Scheme, "www.", "channel4.com", "/", "programmes", "/", "1234", "-2">>,
     <<Scheme, "all4.com", "/", "watch">>,
     <<Scheme, "www.", "itv.com", "/", "watch", "/", "ab12">>,
     <<Scheme, "itvx.com", "/", "1234">>,
     <<Scheme, "channel5.com", "/", "show", "/", "1234">>,
     <<Scheme, "my5.tv", "/", "-x-">>}

OtherUrls ==
    {<<Scheme, "example.org", "/", "1234">>,
     <<Scheme, "example.org", "/", "watch", "/", "itv.com">>,
     <<Scheme, "example.org", "/", "1234", "?ref=", "channel4.com">>,
     <<Scheme, "example.org", "/", "watch", "#", "my5.tv">>}

PageUrls == ProviderUrls \cup OtherUrls

\* the recorded network timing entries' names
NetUrls ==
    {<<Scheme, "cdn.example", "/", "5678", "/", "a", ".mpd">>,
     <<Scheme, "cdn.example", "/", "b", ".mpd", "?t=", "1">>,
     <<Scheme, "cdn.example", "/", "c", ".ism/", "Manifest">>,
     <<Scheme, "cdn.example", "/", "s", ".vtt">>,
     <<Scheme, "cdn.example", "/subs.", "xml">>,
     <<Scheme, "cdn.example", "/", "subtitles", "/", "5678">>,
     <<Scheme, "cdn.example", "/", "s", ".vtt", "?m=", ".mpd">>,
     <<Scheme, "static.example", "/", "app.js">>}

\* urlparse(u).netloc: what lies between the scheme and the path
RECURSIVE UpToDelimiter(_)
UpToDelimiter(s) ==
    IF s = <<>> \/ Head(s) \in {"/", "/subs.", "?ref=", "?t=", "?m=", "#"} THEN <<>>
    ELSE <<Head(s)>> \o UpToDelimiter(Tail(s))

Netloc(u) == IF u # <<>> /\ Head(u) = Scheme THEN UpToDelimiter(Tail(u)) ELSE <<>>

HostHasMarker(u) == \E m \in ProviderMarkers : Contains(Netloc(u), m)

(***************************************************************************)
(* process_url: provider detection                                         *)
(***************************************************************************)
DetectService(u) ==
    IF Contains(u, "channel4.com") \/ Contains(u, "all4.com") THEN "Channel 4"
    ELSE IF Contains(u, "itv.com") \/ Contains(u, "itvx.com") THEN "ITV"
    ELSE IF Contains(u, "channel5.com") \/ Contains(u, "my5.tv") THEN "Channel 5"
    ELSE "None"

(***************************************************************************)
(* The downloader instance together with the cache file it reads and       *)
(* writes, as one record: the methods below map such a record to the next. *)
(***************************************************************************)
EmptyMap == [h \in {} |-> <<>>]

\* a store that forgets the entries of the other headers
Put_Replacing(m, h, k) == [x \in {h} |-> k]

\* line 427: self.widevine_data[pssh] = key_input
Put(m, h, k) == [x \in DOMAIN m \cup {h} |-> IF x = h THEN k ELSE m[x]]

CallNames == {"browser_init", "navigate", "play", "prompt", "cache_write", "save",
              "extractor", "resolver", "download_tool", "remux", "rename", "quit"}

NoCalls == [c \in CallNames |-> 0]

Bump(c, name) == [c EXCEPT ![name] = @ + 1]

World == [driver |-> driver, has_widevine_data |-> has_widevine_data,
          widevine_data |-> widevine_data, proxy_file |-> proxy_file,
          calls |-> calls]

SetWorld(w) == /\ driver' = w.driver
               /\ has_widevine_data' = w.has_widevine_data
               /\ widevine_data' = w.widevine_data
               /\ proxy_file' = w.proxy_file
               /\ calls' = w.calls

\* a loader that lets the error of a file it cannot read or parse escape
load_widevine_proxy_data_Strict(w) ==
    IF w.proxy_file.kind = "corrupt" THEN w
    ELSE [w EXCEPT !.has_widevine_data = TRUE, !.widevine_data = w.proxy_file.map]

\* load_widevine_proxy_data: a missing, corrupt or unreadable file gives {}
load_widevine_proxy_data(w) ==
    [w EXCEPT !.has_widevine_data = TRUE,
              !.widevine_data = IF w.proxy_file.kind = "ok" THEN w.proxy_file.map
                                ELSE EmptyMap]

\* what the file holds after open(..., 'w') + json.dump ran as `write` says
WrittenFile(old, map, write) ==
    CASE write = "ok" -> [kind |-> "ok", map |-> map]
      [] write = "denied" -> old
      [] write = "truncated" -> [kind |-> "corrupt", map |-> EmptyMap]

WriteOutcomes == {"ok", "denied", "truncated"}

\* save_widevine_proxy_data: any error is printed and swallowed.  On an
\* instance without widevine_data, open(..., 'w') has emptied the file when
\* json.dump raises AttributeError, unless the open itself was refused.
save_widevine_proxy_data(w, write) ==
    [w EXCEPT !.proxy_file = IF w.has_widevine_data
                             THEN WrittenFile(w.proxy_file, w.widevine_data, write)
                             ELSE IF write = "denied" THEN w.proxy_file
                             ELSE [kind |-> "corrupt", map |-> EmptyMap],
              !.calls = Bump(@, "save")]

\* how starting a browser goes: it works; webdriver.Firefox (line 79) raises;
\* or the session is made and set_window_size (line 80) raises
StartOutcomes == {"ok", "no_browser", "no_window"}

\* initialize_browser: self.driver is assigned at line 79, the window is
\* sized at line 80, the cache is loaded at line 83
initialize_browser(w, start) ==
    LET w1 == [w EXCEPT !.driver = TRUE, !.calls = Bump(@, "browser_init")]
    IN  CASE start = "no_browser" -> [raised |-> TRUE, world |-> w]
          [] start = "no_window" -> [raised |-> TRUE, world |-> w1]
          [] start = "ok" -> [raised |-> FALSE, world |-> load_widevine_proxy_data(w1)]

\* lines 119, 212, 290, 376: "if not self.driver"
NeedsBrowser(w) == ~w.driver

\* "if not self.driver: self.initialize_browser()"
OpenSession(w, start) ==
    IF NeedsBrowser(w) THEN initialize_browser(w, start)
    ELSE [raised |-> FALSE, world |-> w]

\* how the browser starts matters only while no session is open
BrowserStarts(w) == IF NeedsBrowser(w) THEN StartOutcomes ELSE {"ok"}

\* whether driver.quit() completes matters only while a session is open
Quits(w) == IF w.driver THEN BOOLEAN ELSE {TRUE}

\* close_browser: driver.quit() (line 112) is outside any try; when it
\* raises, line 113 is skipped and self.driver stays set
close_browser(w, quit) ==
    IF ~w.driver THEN [raised |-> FALSE, world |-> w]
    ELSE LET w1 == [w EXCEPT !.calls = Bump(@, "quit")]
         IN  IF quit THEN [raised |-> FALSE, world |-> [w1 EXCEPT !.driver = FALSE]]
             ELSE [raised |-> TRUE, world |-> w1]

(***************************************************************************)
(* get_drm_key                                                             *)
(***************************************************************************)
\* a resolver that does not test the header
HeaderAbsent_Never(pssh) == FALSE

\* line 366: "if not pssh"
HeaderAbsent(pssh) == ~Truthy(pssh)

\* a resolver that never finds a header in the cache
CacheHit_Never(w, pssh) == FALSE

\* line 371: "if pssh in self.widevine_data"
CacheHit(w, pssh) == pssh \in DOMAIN w.widevine_data

\* line 421: "if ':' in key_input"
ValidKeyFormat(key_input) == Contains(key_input, ":")

\* line 427: what is stored for the header
StoredKey(key_input) == key_input

\* line 429: what is returned
ReturnedKey(key_input) == key_input

\* lines 427-428: the valid answer is stored, then the file is rewritten
StoreAnswer(w, pssh, key_input, write) ==
    save_widevine_proxy_data(
        [w EXCEPT !.widevine_data = Put(@, pssh, StoredKey(key_input)),
                  !.calls = Bump(@, "cache_write")],
        write)

\* a resolver that stores the answer whatever its format
RejectAnswer_Stores(w, pssh, key_input, write) == StoreAnswer(w, pssh, key_input, write)

\* lines 430-432: the invalid answer
RejectAnswer(w, pssh, key_input, write) == w

\* lines 375-409: open the session if needed, navigate and wait, try the
\* play control.  `start` says how starting a browser goes, `nav` whether
\* driver.get and the wait of lines 394-395 complete (they are outside any
\* try), `play` whether the control is found.
AcquireInteractively(w, start, nav, play) ==
    LET o == OpenSession(w, start)
    IN
    IF o.raised THEN o
    ELSE LET w2 == [o.world EXCEPT !.calls = Bump(@, "navigate")]
         IN  IF ~nav THEN [raised |-> TRUE, world |-> w2]
             ELSE [raised |-> FALSE,
                   world |-> IF play THEN [w2 EXCEPT !.calls = Bump(@, "play")] ELSE w2]

\* lines 371-373: the cached key is returned as it is
LookupCached(w, pssh) == [ret |-> w.widevine_data[pssh], raised |-> FALSE, world |-> w]

\* the whole method; `raw` is what input() returned, `interrupt` says that
\* input() raised instead (end of input, operator interrupt)
get_drm_key(w0, pssh, start, nav, play, raw, interrupt, write) ==
    LET w == [w0 EXCEPT !.calls = Bump(@, "resolver")]
    IN
    IF HeaderAbsent(pssh) THEN [ret |-> NoneVal, raised |-> FALSE, world |-> w]
    ELSE IF ~w.has_widevine_data THEN [ret |-> NoneVal, raised |-> TRUE, world |-> w]
    ELSE IF CacheHit(w, pssh) THEN LookupCached(w, pssh)
    ELSE LET acq == AcquireInteractively(w, start, nav, play)
             w3 == [acq.world EXCEPT !.calls = Bump(@, "prompt")]
             key_input == Strip(raw)
             kid == Lower(Strip(key_input))
         IN  IF acq.raised THEN [ret |-> NoneVal, raised |-> TRUE, world |-> acq.world]
             ELSE IF interrupt THEN [ret |-> NoneVal, raised |-> TRUE, world |-> w3]
             ELSE IF ValidKeyFormat(key_input)
                  THEN [ret |-> ReturnedKey(key_input), raised |-> FALSE,
                        world |-> StoreAnswer(w3, pssh, key_input, write)]
                  ELSE [ret |-> NoneVal, raised |-> FALSE,
                        world |-> RejectAnswer(w3, pssh, key_input, write)]

(***************************************************************************)
(* The extractors.  Each is given the page URL, whether the wait for the   *)
(* video element timed out, the recorded network entries, the manifest     *)
(* response and the src of the page's first subtitle track.                *)
(***************************************************************************)
\* `data` before the extractor has returned
NoData == [kind |-> "unset", mpd_url |-> NoneVal, pssh |-> NoneVal,
           subtitle_url |-> NoneVal, program_id |-> NoneVal]

\* "return None"
ReturnedNone == [NoData EXCEPT !.kind = "None"]

\* "return None, None, None"
TupleOfNone == [NoData EXCEPT !.kind = "tuple"]

IsManifest(p, u) ==
    CASE p = "Channel 4" -> Contains(u, ".mpd")
      [] p = "ITV" -> Contains(u, ".mpd") \/ Contains(u, ".ism/")
      [] p = "Channel 5" -> Contains(u, ".mpd")

IsSubtitle(p, u) ==
    CASE p = "Channel 4" -> Contains(u, ".vtt") \/ Contains(u, "/subs.")
      [] p = "ITV" -> Contains(u, ".vtt") \/ Contains(u, "/subs.") \/ Contains(u, "subtitles")
      [] p = "Channel 5" -> Contains(u, ".vtt") \/ Contains(u, "subtitles")

\* a scan that keeps the first entry it matched
AssignMatch_First(current, u) == IF Truthy(current) THEN current ELSE u

\* lines 150, 152: "mpd_url = url", "subtitle_url = url"
AssignMatch(current, u) == u

\* "for item in network_items": the loop variable is the parameter `url`
RECURSIVE ScanEntries(_, _, _)
ScanEntries(p, items, st) ==
    IF items = <<>> THEN st
    ELSE LET u == Head(items)
             next == IF IsManifest(p, u)
                     THEN [st EXCEPT !.url = u, !.mpd_url = AssignMatch(@, u)]
                     ELSE IF IsSubtitle(p, u)
                     THEN [st EXCEPT !.url = u, !.subtitle_url = AssignMatch(@, u)]
                     ELSE [st EXCEPT !.url = u]
         IN  ScanEntries(p, Tail(items), next)

ScanStart(page_url) == [url |-> page_url, mpd_url |-> NoneVal, subtitle_url |-> NoneVal]

\* pieces made of [0-9] only, of [0-9a-zA-Z] only, and "-" with digits
DigitChunks == {"1234", "5678", "1"}
AlnumChunks == DigitChunks \cup {"programmes", "watch", "show", "ab12", "a", "b", "c",
                                 "s", "t", "subtitles", "Manifest", "xml"}
DashDigitChunks == {"-2"}
EndsWithSlash(c) == c \in {"/", Scheme, ".ism/"}
StartsWithSlash(c) == c \in {"/", "/subs."}

AtEndOrSlash(u, i) == i > Len(u) \/ StartsWithSlash(u[i])

\* re.search(r'/(\d+)(?:-\d+)?(?:/|$)', url)
DigitsIdMatches(u) ==
    {i \in 1..(Len(u) - 1) :
        /\ EndsWithSlash(u[i])
        /\ u[i + 1] \in DigitChunks
        /\ \/ AtEndOrSlash(u, i + 2)
           \/ (i + 2 <= Len(u) /\ u[i + 2] \in DashDigitChunks /\ AtEndOrSlash(u, i + 3))}

\* re.search(r'/([0-9a-zA-Z]+)(?:/|$)', url)
AlnumIdMatches(u) ==
    {i \in 1..(Len(u) - 1) :
        EndsWithSlash(u[i]) /\ u[i + 1] \in AlnumChunks /\ AtEndOrSlash(u, i + 2)}

FirstGroup(u, matches) ==
    IF matches = {} THEN NoneVal ELSE <<u[Head(Ascending(matches)) + 1]>>

\* the program_id pattern of each extractor, applied to u
ProgramIdIn(p, u) ==
    IF p = "Channel 4" THEN FirstGroup(u, DigitsIdMatches(u))
    ELSE FirstGroup(u, AlnumIdMatches(u))

\* the src of the first <track kind="subtitles"> of the page source, if any
TrackSrcs == {NoneVal,
              <<Scheme, "cdn.example", "/", "t", ".vtt">>,
              <<"/", "t", ".vtt">>}

StartsWithHttp(s) == s # <<>> /\ Head(s) = Scheme

\* lines 177-189: only when the entries gave no subtitle URL
PageSourceSubtitle(current, u, src) ==
    IF Truthy(current) THEN current
    ELSE IF Truthy(src) /\ ~StartsWithHttp(src) THEN <<Scheme>> \o Netloc(u) \o src
    ELSE src

extract_channel4_data(page_url, timeout, items, resp, src) ==
    IF timeout THEN TupleOfNone
    ELSE LET st == ScanEntries("Channel 4", items, ScanStart(page_url))
         IN  IF ~Truthy(st.mpd_url) THEN TupleOfNone
             ELSE [kind |-> "dict", mpd_url |-> st.mpd_url, pssh |-> ParsePssh(resp),
                   subtitle_url |-> PageSourceSubtitle(st.subtitle_url, st.url, src),
                   program_id |-> FirstGroup(st.url, DigitsIdMatches(st.url))]

extract_itv_data(page_url, timeout, items, resp, src) ==
    IF timeout THEN ReturnedNone
    ELSE LET st == ScanEntries("ITV", items, ScanStart(page_url))
         IN  IF ~Truthy(st.mpd_url) THEN ReturnedNone
             ELSE [kind |-> "dict", mpd_url |-> st.mpd_url, pssh |-> ParsePssh(resp),
                   subtitle_url |-> st.subtitle_url,
                   program_id |-> FirstGroup(st.url, AlnumIdMatches(st.url))]

extract_channel5_data(page_url, timeout, items, resp, src) ==
    IF timeout THEN ReturnedNone
    ELSE LET st == ScanEntries("Channel 5", items, ScanStart(page_url))
         IN  IF ~Truthy(st.mpd_url) THEN ReturnedNone
             ELSE [kind |-> "dict", mpd_url |-> st.mpd_url, pssh |-> ParsePssh(resp),
                   subtitle_url |-> st.subtitle_url,
                   program_id |-> FirstGroup(st.url, AlnumIdMatches(st.url))]

\* lines 119-123 of each extractor: open the session on first need, navigate
OpenAndNavigate(w, start) ==
    LET o == OpenSession([w EXCEPT !.calls = Bump(@, "extractor")], start)
    IN  IF o.raised THEN o
        ELSE [raised |-> FALSE, world |-> [o.world EXCEPT !.calls = Bump(@, "navigate")]]

\* a job that goes on whatever the extractor returned
CheckData_Lenient(d) == "ok"

\* process_url line 568: "if not data or not data.get('mpd_url')"
CheckData(d) ==
    CASE d.kind \in {"unset", "None"} -> "False"
      [] d.kind = "tuple" -> "exception"
      [] d.kind = "dict" -> IF Truthy(d.mpd_url) THEN "ok" ELSE "False"

(***************************************************************************)
(* download_subtitle, download_and_decrypt, mux_subtitle_into_video        *)
(***************************************************************************)
NoTool == [exit |-> -1, mkv |-> FALSE, mp4 |-> FALSE, sub_exists |-> FALSE,
           mux |-> "skipped", rename |-> FALSE, final |-> "none"]

SubtitleFile == <<"TEMP_DIR", "/", "output_name", ".vtt">>

\* download_subtitle: the path, or None when the request or the write fails
download_subtitle(subtitle_url, fetched) ==
    IF ~Truthy(subtitle_url) THEN NoneVal
    ELSE IF fetched THEN SubtitleFile ELSE NoneVal

MuxOutcomes == {"ok", "ffmpeg_error", "no_ffmpeg", "replace_error", "interrupted"}

\* what the child processes and the file system do: whether the tool starts,
\* its exit code, which container files it leaves, whether the subtitle file
\* exists, how the remux goes, whether the final rename works
ToolInputs == [start : BOOLEAN, returncode : {0, 1}, mkv : BOOLEAN, mp4 : BOOLEAN,
               sub_exists : BOOLEAN, mux : MuxOutcomes, rename : BOOLEAN]

\* what the tools and the file system did in this job: the exit code of the
\* download tool, the files it left, how the remux went when it was invoked,
\* whether the final rename can work, and the extension of the final file
ToolRun(in, muxes, final) ==
    [exit |-> in.returncode, mkv |-> in.mkv, mp4 |-> in.mp4, sub_exists |-> in.sub_exists,
     mux |-> IF muxes THEN in.mux ELSE "skipped", rename |-> in.rename, final |-> final]

\* a job that ignores the exit code of the tool
ToolSucceeded_Always(in) == TRUE

\* line 484: "if process.returncode == 0"
ToolSucceeded(in) == in.returncode = 0

\* lines 486-491: the file the tool is expected to have written
ExpectedOutput(in) == IF in.mkv THEN "mkv" ELSE IF in.mp4 THEN "mp4" ELSE "none"

\* a job that remuxes whatever it has
WantsMux_Always(sub_path, in) == TRUE

\* line 495: "if subtitle_path and os.path.exists(subtitle_path)"
WantsMux(sub_path, in) == Truthy(sub_path) /\ in.sub_exists

\* mux_subtitle_into_video: only CalledProcessError is caught inside
MuxRaises(in) == in.mux \in {"no_ffmpeg", "replace_error"}

\* an operator interrupt while ffmpeg runs (line 531) is no Exception: it
\* passes the handlers of lines 538 and 510
MuxEscapes(in) == in.mux = "interrupted"

\* line 499: the final name always carries .mkv
FinalExtension(found) == "mkv"

download_and_decrypt(w0, sub_path, in) ==
    LET w == [w0 EXCEPT !.calls = Bump(@, "download_tool")]
        found == ExpectedOutput(in)
    IN
    IF ~in.start THEN [raised |-> FALSE, ret |-> NoneVal, world |-> w, tool |-> NoTool]
    ELSE IF ~ToolSucceeded(in) \/ found = "none"
         THEN [raised |-> FALSE, ret |-> NoneVal, world |-> w,
               tool |-> ToolRun(in, FALSE, "none")]
    ELSE LET muxes == WantsMux(sub_path, in)
             w1 == IF muxes THEN [w EXCEPT !.calls = Bump(@, "remux")] ELSE w
         IN  IF muxes /\ MuxEscapes(in)
             THEN [raised |-> TRUE, ret |-> NoneVal, world |-> w1,
                   tool |-> ToolRun(in, muxes, "none")]
             ELSE IF (muxes /\ MuxRaises(in)) \/ ~in.rename
             THEN [raised |-> FALSE, ret |-> NoneVal, world |-> w1,
                   tool |-> ToolRun(in, muxes, "none")]
             ELSE [raised |-> FALSE,
                   ret |-> <<"DOWNLOAD_DIR", "/", "output_name", "_FINAL.",
                             FinalExtension(found)>>,
                   world |-> [w1 EXCEPT !.calls = Bump(@, "rename")],
                   tool |-> ToolRun(in, muxes, FinalExtension(found))]

(***************************************************************************)
(* Inputs                                                                  *)
(***************************************************************************)
Headers == {<<>>, <<"A">>, <<"B">>}

CachedKey == <<"a", ":", "b">>
CachedKeys == {CachedKey, <<>>}

CacheMaps(Keys) == UNION {[D -> Keys] : D \in SUBSET Headers}

\* the cache file before the program starts: absent, unreadable, or a JSON
\* object of strings
FilesWith(Keys) ==
    {[kind |-> "missing", map |-> EmptyMap], [kind |-> "corrupt", map |-> EmptyMap]}
    \cup {[kind |-> "ok", map |-> m] : m \in CacheMaps(Keys)}

Files == FilesWith(CachedKeys)
JobFiles == FilesWith({CachedKey})

AnswerChars == {" ", "A", ":"}

\* inside a job the entries are a manifest, a subtitle file and a script
JobNetUrls == {<<Scheme, "cdn.example", "/", "5678", "/", "a", ".mpd">>,
               <<Scheme, "cdn.example", "/", "s", ".vtt">>,
               <<Scheme, "static.example", "/", "app.js">>}

JobItems == SeqsUpTo(JobNetUrls, MaxJobNet)
JobResponses == Responses(MaxJobNodes)
JobAnswers == SeqsUpTo(AnswerChars, MaxJobAnswerLen)

(***************************************************************************)
(* main and the steps of process_url                                       *)
(***************************************************************************)
Init ==
    /\ pc = "start"
    /\ runs = 1
    /\ url = NoneVal
    /\ driver = FALSE
    /\ has_widevine_data = FALSE
    /\ widevine_data = EmptyMap
    /\ proxy_file \in JobFiles
    /\ service_name = "None"
    /\ data = NoData
    /\ drm_key = NoneVal
    /\ answer = NoneVal
    /\ subtitle_path = NoneVal
    /\ output_name = NoneVal
    /\ tool = NoTool
    /\ outcome = "none"
    /\ calls = NoCalls
    /\ response = NoResponse
    /\ network_items = <<>>
    /\ track_src = NoneVal

Instance == <<driver, has_widevine_data, widevine_data, proxy_file, calls>>

\* process_url ends: returns True or False, or an exception leaves it
Return(how) == pc' = "cleanup" /\ outcome' = how

\* main up to the call of process_url
MainStart ==
    /\ pc = "start"
    /\ \/ /\ pc' = "exited"          \* a tool is missing: main returns at once
          /\ UNCHANGED <<url, outcome>>
       \/ /\ Return("interrupt")     \* the URL prompt is interrupted
          /\ UNCHANGED url
       \/ /\ \E u \in PageUrls : url' = u
          /\ pc' = "detect"
          /\ UNCHANGED outcome
    /\ UNCHANGED <<runs, service_name, data, drm_key, answer, subtitle_path, output_name, tool,
                   response, network_items, track_src>>
    /\ UNCHANGED Instance

DetectProvider ==
    /\ pc = "detect"
    /\ service_name' = DetectService(url)
    /\ IF service_name' = "None" THEN Return("False")
       ELSE pc' = "extract" /\ UNCHANGED outcome
    /\ UNCHANGED <<runs, url, data, drm_key, answer, subtitle_path, output_name, tool, response,
                   network_items, track_src>>
    /\ UNCHANGED Instance

\* lines 552, 555, 558: the extractor chosen for the detected service
extract_func(p, page_url, timeout, items, resp, src) ==
    CASE p = "Channel 4" -> extract_channel4_data(page_url, timeout, items, resp, src)
      [] p = "ITV" -> extract_itv_data(page_url, timeout, items, resp, src)
      [] p = "Channel 5" -> extract_channel5_data(page_url, timeout, items, resp, src)

\* data = extract_func(url), then the check of line 568
ExtractStep(p, Items, Resps, Srcs) ==
    /\ pc = "extract"
    /\ service_name = p
    /\ \E start \in BrowserStarts(World) :
          LET o == OpenAndNavigate(World, start)
          IN  /\ SetWorld(o.world)
              /\ \/ /\ o.raised           \* the browser or its window fails
                    /\ Return("exception")
                    /\ UNCHANGED data
                 \/ /\ ~o.raised          \* the navigation fails
                    /\ Return("exception")
                    /\ UNCHANGED data
                 \/ /\ ~o.raised
                    /\ \E timeout \in BOOLEAN, items \in Items, resp \in Resps, src \in Srcs :
                          data' = extract_func(p, url, timeout, items, resp, src)
                    /\ LET chk == CheckData(data')
                       IN  IF chk = "ok" THEN pc' = "resolve" /\ UNCHANGED outcome
                           ELSE Return(chk)
    /\ UNCHANGED <<runs, url, service_name, drm_key, answer, subtitle_path, output_name, tool,
                   response, network_items, track_src>>

ExtractChannel4 == ExtractStep("Channel 4", JobItems, JobResponses, TrackSrcs)
ExtractITV == ExtractStep("ITV", JobItems, JobResponses, TrackSrcs)
ExtractChannel5 == ExtractStep("Channel 5", JobItems, JobResponses, TrackSrcs)

\* a job that goes on whatever the resolver returned
CheckKey_Lenient(k) == TRUE

\* process_url line 574: "if not drm_key"
CheckKey(k) == Truthy(k)

\* drm_key = self.get_drm_key(...), then the check of line 574
ResolveStep(Answers) ==
    /\ pc = "resolve"
    /\ \E start \in BrowserStarts(World), nav \in BOOLEAN, play \in BOOLEAN,
          raw \in Answers, interrupt \in BOOLEAN, write \in WriteOutcomes :
          LET r == get_drm_key(World, data.pssh, start, nav, play, raw, interrupt, write)
              prompted == r.world.calls["prompt"] > calls["prompt"]
          IN  /\ SetWorld(r.world)
              /\ drm_key' = r.ret
              /\ answer' = IF prompted /\ ~r.raised THEN raw ELSE NoneVal
              /\ IF r.raised THEN Return(IF prompted THEN "interrupt" ELSE "exception")
                 ELSE IF ~CheckKey(r.ret) THEN Return("False")
                 ELSE pc' = "subtitle" /\ UNCHANGED outcome
    /\ UNCHANGED <<runs, url, service_name, data, subtitle_path, output_name, tool, response,
                   network_items, track_src>>

ResolveKey == ResolveStep(JobAnswers)

\* str(v) inside an f-string
Format(v) == IF v = NoneVal THEN <<"None">> ELSE v

\* d.get(key, default): the default only when the key is missing
DictGet(d, key, default) == IF key \in DOMAIN d THEN d[key] ELSE default

\* service_name.replace(' ', '')
WithoutSpaces(service) ==
    CASE service = "Channel 4" -> "Channel4"
      [] service = "ITV" -> "ITV"
      [] service = "Channel 5" -> "Channel5"

\* lines 579-581: f"{service_name.replace(' ', '')}-{program_id}-{timestamp}"
OutputName(service, d) ==
    <<WithoutSpaces(service), "-">> \o Format(DictGet(d, "program_id", <<"program">>))
        \o <<"-", "timestamp">>

\* lines 578-587.  download_subtitle catches Exception only (line 445): an
\* operator interrupt during the request or the write of lines 440-442
\* leaves process_url before subtitle_path is assigned.
DownloadSubtitle ==
    /\ pc = "subtitle"
    /\ output_name' = OutputName(service_name, data)
    /\ \/ /\ \E fetched \in BOOLEAN :
                subtitle_path' = download_subtitle(data.subtitle_url, fetched)
          /\ pc' = "download"
          /\ UNCHANGED outcome
       \/ /\ Truthy(data.subtitle_url)
          /\ Return("exception")
          /\ UNCHANGED subtitle_path
    /\ UNCHANGED <<runs, url, service_name, data, drm_key, answer, tool,
                   response, network_items, track_src>>
    /\ UNCHANGED Instance

\* lines 589-603.  os.makedirs (line 455) is outside the try, and the try
\* of lines 474-511 catches Exception only: a directory that cannot be made
\* or an operator interrupt while the tool or the remux runs leaves process_url.
DownloadStep(Inputs) ==
    /\ pc = "download"
    /\ \/ \E in \in Inputs :
             LET r == download_and_decrypt(World, subtitle_path, in)
             IN  /\ SetWorld(r.world)
                 /\ tool' = r.tool
                 /\ Return(IF r.raised THEN "exception"
                           ELSE IF Truthy(r.ret) THEN "True" ELSE "False")
       \/ /\ SetWorld([World EXCEPT !.calls = Bump(@, "download_tool")])
          /\ tool' = NoTool
          /\ Return("exception")
    /\ UNCHANGED <<runs, url, service_name, data, drm_key, answer, subtitle_path, output_name,
                   response, network_items, track_src>>

DownloadAndDecrypt == DownloadStep(ToolInputs)

\* main's finally: downloader.cleanup(), then the process ends, also when
\* close_browser raises out of the finally
Cleanup ==
    /\ pc = "cleanup"
    /\ \E quit \in Quits(World) : SetWorld(close_browser(World, quit).world)
    /\ pc' = "exited"
    /\ url' = NoneVal
    /\ service_name' = "None"
    /\ data' = NoData
    /\ drm_key' = NoneVal
    /\ answer' = NoneVal
    /\ subtitle_path' = NoneVal
    /\ output_name' = NoneVal
    /\ UNCHANGED <<runs, tool, outcome, response, network_items, track_src>>

Next ==
    \/ MainStart
    \/ DetectProvider
    \/ ExtractChannel4
    \/ ExtractITV
    \/ ExtractChannel5
    \/ ResolveKey
    \/ DownloadSubtitle
    \/ DownloadAndDecrypt
    \/ Cleanup

Spec == Init /\ [][Next]_vars

TypeOK ==
    /\ pc \in {"start", "detect", "extract", "resolve", "subtitle", "download",
               "cleanup", "exited", "parse", "parsed"}
    /\ outcome \in {"none", "True", "False", "exception", "interrupt"}
    /\ driver \in BOOLEAN

(***************************************************************************)
(* The extractors on every manifest: the job has detected its provider,    *)
(* the session records one manifest entry and the manifest server answers  *)
(* with `response`.                                                        *)
(***************************************************************************)
ManifestEntry == <<Scheme, "cdn.example", "/", "5678", "/", "a", ".mpd">>

ParserUrls == {<<Scheme, "www.", "channel4.com", "/", "programmes", "/", "1234", "-2">>,
               <<Scheme, "www.", "itv.com", "/", "watch", "/", "ab12">>,
               <<Scheme, "channel5.com", "/", "show", "/", "1234">>}

ParserInit ==
    /\ response \in Responses(MaxNodes)
    /\ network_items = <<ManifestEntry>>
    /\ track_src = NoneVal
    /\ pc = "extract"
    /\ runs = 1
    /\ url \in ParserUrls
    /\ service_name = DetectService(url)
    /\ driver = FALSE
    /\ has_widevine_data = FALSE
    /\ widevine_data = EmptyMap
    /\ proxy_file = [kind |-> "missing", map |-> EmptyMap]
    /\ data = NoData
    /\ drm_key = NoneVal
    /\ answer = NoneVal
    /\ subtitle_path = NoneVal
    /\ output_name = NoneVal
    /\ tool = NoTool
    /\ outcome = "none"
    /\ calls = NoCalls

ParseChannel4 == ExtractStep("Channel 4", {network_items}, {response}, TrackSrcs)
ParseITV == ExtractStep("ITV", {network_items}, {response}, TrackSrcs)
ParseChannel5 == ExtractStep("Channel 5", {network_items}, {response}, TrackSrcs)

ParserNext == ParseChannel4 \/ ParseITV \/ ParseChannel5

ParserSpec == ParserInit /\ [][ParserNext]_vars

(***************************************************************************)
(* The extractors on every recording: the job has detected its provider,   *)
(* the session has recorded `network_items`, the page's first subtitle     *)
(* track has the src `track_src` and the manifest holds one header.        *)
(***************************************************************************)
ScanItems == SeqsUpTo(NetUrls, MaxNet)

ScanResponse ==
    [ok |-> TRUE, nodes |-> <<[parent |-> 0, tag |-> TagOtherPssh, scheme |-> NoAttr,
                               text |-> <<"B">>]>>]

ScanInit ==
    /\ network_items \in ScanItems
    /\ track_src \in TrackSrcs
    /\ url \in ProviderUrls
    /\ pc = "extract"
    /\ runs = 1
    /\ service_name = DetectService(url)
    /\ driver = FALSE
    /\ has_widevine_data = FALSE
    /\ widevine_data = EmptyMap
    /\ proxy_file = [kind |-> "missing", map |-> EmptyMap]
    /\ data = NoData
    /\ drm_key = NoneVal
    /\ answer = NoneVal
    /\ subtitle_path = NoneVal
    /\ output_name = NoneVal
    /\ tool = NoTool
    /\ outcome = "none"
    /\ calls = NoCalls
    /\ response = ScanResponse

ScanChannel4 == ExtractStep("Channel 4", {network_items}, {response}, {track_src})
ScanITV == ExtractStep("ITV", {network_items}, {response}, {track_src})
ScanChannel5 == ExtractStep("Channel 5", {network_items}, {response}, {track_src})

ScanNext == ScanChannel4 \/ ScanITV \/ ScanChannel5

ScanSpec == ScanInit /\ [][ScanNext]_vars

(***************************************************************************)
(* The key cache over successive program runs: each run has reached key    *)
(* resolution with a header the extractor produced, resolves, finishes its *)
(* job and exits; the cache file outlives the process.                     *)
(***************************************************************************)
KeyUrl == <<Scheme, "www.", "itv.com", "/", "watch", "/", "ab12">>

KeyAnswers == SeqsUpTo(AnswerChars, MaxAnswerLen)

\* the manifest server fails, or answers with one PSSH-like element
KeyManifests ==
    {NoResponse} \cup
    {[ok |-> TRUE, nodes |-> <<[parent |-> 0, tag |-> TagOtherPssh, scheme |-> NoAttr,
                                text |-> t]>>] : t \in ElementTexts}

\* the state in which a new process calls get_drm_key
AtResolver(file, resp) ==
    /\ pc' = "resolve"
    /\ url' = KeyUrl
    /\ service_name' = DetectService(KeyUrl)
    /\ SetWorld(OpenAndNavigate([driver |-> FALSE, has_widevine_data |-> FALSE,
                                 widevine_data |-> EmptyMap, proxy_file |-> file,
                                 calls |-> NoCalls], "ok").world)
    /\ data' = extract_itv_data(KeyUrl, FALSE, <<ManifestEntry>>, resp, NoneVal)
    /\ drm_key' = NoneVal
    /\ answer' = NoneVal
    /\ subtitle_path' = NoneVal
    /\ output_name' = NoneVal
    /\ tool' = NoTool
    /\ outcome' = "none"
    /\ response' = NoResponse
    /\ UNCHANGED <<network_items, track_src>>

KeyInit ==
    /\ pc = "resolve"
    /\ runs = 1
    /\ url = KeyUrl
    /\ service_name = DetectService(KeyUrl)
    /\ proxy_file \in Files
    /\ driver = TRUE
    /\ has_widevine_data = TRUE
    /\ widevine_data = load_widevine_proxy_data(
                           [driver |-> FALSE, has_widevine_data |-> FALSE,
                            widevine_data |-> EmptyMap, proxy_file |-> proxy_file,
                            calls |-> NoCalls]).widevine_data
    /\ calls = Bump(Bump(Bump(NoCalls, "browser_init"), "extractor"), "navigate")
    /\ \E resp \in KeyManifests :
          data = extract_itv_data(KeyUrl, FALSE, <<ManifestEntry>>, resp, NoneVal)
    /\ drm_key = NoneVal
    /\ answer = NoneVal
    /\ subtitle_path = NoneVal
    /\ output_name = NoneVal
    /\ tool = NoTool
    /\ outcome = "none"
    /\ response = NoResponse
    /\ network_items = <<>>
    /\ track_src = NoneVal

KeyResolve == ResolveStep(KeyAnswers)

\* these jobs have no subtitle: the tool starts and leaves an .mkv file or
\* fails, and the final rename works or not
KeyToolInputs ==
    {in \in ToolInputs : /\ in.start /\ in.mkv /\ ~in.mp4
                         /\ ~in.sub_exists /\ in.mux = "ok"}

KeyDownload == DownloadStep(KeyToolInputs)


\* the program is started again
KeyRestart ==
    /\ pc = "exited"
    /\ runs < MaxRuns
    /\ runs' = runs + 1
    /\ \E resp \in KeyManifests : AtResolver(proxy_file, resp)

KeyNext ==
    \/ KeyResolve
    \/ DownloadSubtitle
    \/ KeyDownload
    \/ Cleanup
    \/ KeyRestart

KeySpec == KeyInit /\ [][KeyNext]_vars

(***************************************************************************)
(* Claims                                                                  *)
(***************************************************************************)
\* a step of get_drm_key that leaves the session, the operator and the cache alone
QuietStep ==
    /\ calls'["navigate"] = calls["navigate"]
    /\ calls'["play"] = calls["play"]
    /\ calls'["prompt"] = calls["prompt"]
    /\ calls'["cache_write"] = calls["cache_write"]
    /\ calls'["save"] = calls["save"]
    /\ calls'["browser_init"] = calls["browser_init"]
    /\ widevine_data' = widevine_data
    /\ proxy_file' = proxy_file

ResolverRuns == pc = "resolve" /\ pc' # "resolve"

\* C1 as stated: whenever the header given to get_drm_key is a key of the
\* loaded cache, the call returns the cached value and neither navigates,
\* activates the play control, prompts nor writes the cache.
C1_AnyCachedHeader ==
    [][(ResolverRuns /\ has_widevine_data /\ data.pssh \in DOMAIN widevine_data)
          => (drm_key' = widevine_data[data.pssh] /\ QuietStep)]_vars

\* C1 amended: the same for every non-empty header that is a key of the
\* loaded cache (an empty header is treated as absent before the lookup).
C1_CachedHeaderReturned ==
    [][(ResolverRuns /\ has_widevine_data /\ data.pssh # <<>>
            /\ data.pssh \in DOMAIN widevine_data)
          => (drm_key' = widevine_data[data.pssh] /\ QuietStep)]_vars

C1_Witness ==
    /\ pc \in {"subtitle", "cleanup"}
    /\ Truthy(data.pssh)
    /\ data.pssh \in DOMAIN widevine_data
    /\ drm_key = widevine_data[data.pssh]
    /\ calls["resolver"] = 1
    /\ calls["prompt"] = 0

\* C2: on a cache miss, an answer without ':' makes get_drm_key return no
\* key and leaves the in-memory cache and the cache file as they were.
C2_InvalidAnswerLeavesCache ==
    [][(ResolverRuns /\ answer' # NoneVal /\ ~Contains(answer', ":"))
          => (/\ data.pssh \notin DOMAIN widevine_data
              /\ drm_key' = NoneVal
              /\ outcome' = "False"
              /\ widevine_data' = widevine_data
              /\ proxy_file' = proxy_file
              /\ calls'["cache_write"] = calls["cache_write"]
              /\ calls'["save"] = calls["save"])]_vars

C2_Witness ==
    /\ pc = "cleanup"
    /\ calls["prompt"] = 1
    /\ answer # NoneVal
    /\ Strip(answer) # <<>>
    /\ ~Contains(answer, ":")
    /\ drm_key = NoneVal
    /\ outcome = "False"

\* C3: a URL whose host carries no provider marker fails at provider
\* detection and no extractor is invoked, whatever its path, query or
\* fragment holds.
C3_UnknownHostFailsAtDetection ==
    (pc \in {"extract", "resolve", "subtitle", "download", "cleanup"}
        /\ url # NoneVal /\ ~HostHasMarker(url))
      => (service_name = "None" /\ pc = "cleanup" /\ outcome = "False"
          /\ calls["extractor"] = 0)

\* C4: when the download tool exits nonzero, or exits zero and left neither
\* the .mkv nor the .mp4 file, the job ends Failed, the remux tool is not
\* invoked and nothing is renamed to the final path.
C4_ToolFailureFailsJob ==
    (calls["download_tool"] > 0
        /\ (tool.exit > 0 \/ (tool.exit = 0 /\ ~tool.mkv /\ ~tool.mp4)))
      => (outcome = "False" /\ calls["remux"] = 0 /\ calls["rename"] = 0
          /\ tool.final = "none")

C4_Witness ==
    /\ pc = "cleanup"
    /\ Truthy(subtitle_path)
    /\ tool.exit = 1
    /\ tool.mkv
    /\ outcome = "False"
    /\ calls["remux"] = 0

\* C5: after a resolution has stored key k for header h, the in-memory cache
\* and the cache file agree and both give k for h, also when the write to
\* storage fails.
C5_MemoryAndFileAgree ==
    calls["cache_write"] > 0
      => (/\ data.pssh \in DOMAIN widevine_data
          /\ widevine_data[data.pssh] = drm_key
          /\ proxy_file.kind = "ok"
          /\ proxy_file.map = widevine_data)

\* C6: on a miss with an answer holding ':', the value stored and the value
\* returned are the same string, namely the answer trimmed and lower-cased.
C6_StoredKeyIsNormalised ==
    (calls["cache_write"] > 0 /\ answer # NoneVal)
      => (/\ widevine_data[data.pssh] = drm_key
          /\ drm_key = Lower(Strip(answer)))

\* C7: for each provider, when the extractor times out or finds no manifest
\* URL, process_url returns False (no exception escapes) and neither the key
\* resolver nor the download tool is invoked.
C7_ExtractorFailureReturnsFalse ==
    data.kind \in {"None", "tuple"}
      => (pc = "cleanup" /\ outcome = "False" /\ calls["resolver"] = 0
          /\ calls["download_tool"] = 0)

\* C8: with an absent header get_drm_key fails without navigating, prompting
\* or touching the cache, and process_url ends Failed without invoking the
\* download tool.
C8_AbsentHeaderFails ==
    /\ [][(ResolverRuns /\ data.pssh = NoneVal)
            => (/\ drm_key' = NoneVal
                /\ QuietStep
                /\ driver' = driver
                /\ pc' = "cleanup"
                /\ outcome' = "False")]_vars
    /\ [](data.kind = "dict" /\ data.pssh = NoneVal => calls["download_tool"] = 0)

C8_Witness ==
    /\ pc = "cleanup"
    /\ data.kind = "dict"
    /\ data.pssh = NoneVal
    /\ calls["resolver"] = 1
    /\ calls["navigate"] = 1
    /\ outcome = "False"

\* the cenc pssh elements below a Widevine ContentProtection element of the
\* DASH namespace
WidevinePssh(nodes) ==
    {i \in DOMAIN nodes :
        /\ nodes[i].tag = TagCencPssh
        /\ \E a \in DOMAIN nodes :
              /\ nodes[a].tag = TagContentProtection
              /\ nodes[a].scheme = WidevineScheme
              /\ IsAncestor(nodes, a, i)}

Parsed == data.kind = "dict" /\ response.ok

\* C9 as stated: whenever the manifest has such an element holding text t,
\* the extracted header is t trimmed.
C9_AnyProtectionText ==
    Parsed => \A i \in WidevinePssh(response.nodes) :
                 response.nodes[i].text # NoneVal
                   => data.pssh = Strip(response.nodes[i].text)

\* C9 amended: when every such element of the manifest holds the same text t
\* and t trimmed is not empty, the extracted header is t trimmed.
C9_SharedProtectionText ==
    Parsed => \A t \in ElementTexts \ {NoneVal} :
                 (/\ WidevinePssh(response.nodes) # {}
                  /\ \A i \in WidevinePssh(response.nodes) : response.nodes[i].text = t
                  /\ Strip(t) # <<>>)
                   => data.pssh = Strip(t)

C9_Witness ==
    /\ Parsed
    /\ Cardinality(WidevinePssh(response.nodes)) = 2
    /\ \A i \in WidevinePssh(response.nodes) : response.nodes[i].text = <<" ", "A", " ">>
    /\ data.pssh = <<"A">>

\* the elements whose tag holds "pssh" in any case and whose text is not empty
PsshLike(nodes) ==
    {i \in DOMAIN nodes : Contains(Lower(nodes[i].tag), "pssh")
                            /\ nodes[i].text # NoneVal /\ nodes[i].text # <<>>}

NoExactHeader(nodes) ==
    \A i \in WidevinePssh(nodes) :
        nodes[i].text = NoneVal \/ Strip(nodes[i].text) = <<>>

\* C10: when the exact namespaced match yields no header (also when a
\* namespaced pssh element has no text), the header is the trimmed text of
\* the first element in document order whose tag holds "pssh" and whose text
\* is not empty, and absent when there is none.
C10_FallbackToFirstPsshLike ==
    (Parsed /\ NoExactHeader(response.nodes))
      => data.pssh = (IF PsshLike(response.nodes) = {} THEN NoneVal
                      ELSE LET first == CHOOSE i \in PsshLike(response.nodes) :
                                           \A j \in PsshLike(response.nodes) : i <= j
                           IN  Strip(response.nodes[first].text))

\* C11: once the download tool has succeeded and the subtitle file exists, a
\* failing remux (the remux tool exits nonzero, cannot be started, or the
\* replacement of the video file fails) does not fail the job: with a working
\* final rename, process_url returns True and the final file is in place.
C11_RemuxFailureKeepsJob ==
    (calls["remux"] > 0 /\ tool.mux \in {"ffmpeg_error", "no_ffmpeg", "replace_error"}
        /\ tool.rename)
      => (outcome = "True" /\ tool.final = "mkv" /\ calls["rename"] = 1)

\* C12: when the provider's pattern finds no program identifier, the output
\* base name carries the placeholder "program" where the identifier goes.
C12_PlaceholderWhenNoProgramId ==
    (output_name # NoneVal /\ data.kind = "dict" /\ data.program_id = NoneVal)
      => output_name = <<WithoutSpaces(service_name), "-", "program", "-", "timestamp">>

\* C13: no session is opened before the extractor needs one, at most one
\* session is ever opened, the extractor and the key resolver of a job share
\* it, and when the process has ended (after success, failure, exception or
\* operator interrupt) no session is left open.
C13_OneSessionClosedAtExit ==
    /\ calls["browser_init"] <= 1
    /\ pc \in {"start", "detect", "extract"} => calls["browser_init"] = 0
    /\ pc = "exited" => ~driver

\* C14: when the cache file is missing, or exists but cannot be read or
\* parsed, the load leaves an empty in-memory cache and the job goes on: once
\* the session has navigated (the browser started and the load of line 83
\* ran) the cache exists and is empty until a key is stored.
C14_UnreadableCacheLoadsEmpty ==
    (calls["navigate"] > 0 /\ calls["cache_write"] = 0 /\ proxy_file.kind # "ok")
      => (has_widevine_data /\ widevine_data = EmptyMap)

C14_Witness ==
    /\ pc = "cleanup"
    /\ proxy_file.kind = "corrupt"
    /\ calls["cache_write"] = 0
    /\ widevine_data = EmptyMap
    /\ data.kind = "dict"
    /\ Truthy(data.pssh)
    /\ calls["prompt"] = 1
    /\ outcome = "False"

\* the extractor has scanned the recorded entries and returned its result
Scanned == data.kind = "dict" /\ pc \in {"resolve", "cleanup"}

\* C15: in every extractor the program_id of the result is the match of the
\* provider's pattern in the page URL given to the extractor, whatever
\* network entries were recorded.
C15_ProgramIdFromPageUrl ==
    Scanned => data.program_id = ProgramIdIn(service_name, url)

\* the positions of the recorded entries with a manifest marker, and of those
\* with a subtitle marker and no manifest marker
ManifestEntries(p, items) == {i \in DOMAIN items : IsManifest(p, items[i])}
SubtitleEntries(p, items) ==
    {i \in DOMAIN items : ~IsManifest(p, items[i]) /\ IsSubtitle(p, items[i])}

\* C16: for each of Channel 4, ITV and Channel 5, when the recorded entries
\* gave no subtitle URL the extractor takes the subtitle URL from the first
\* subtitle track of the page markup: a track with a src gives a subtitle
\* URL, and an absolute src is that URL.
C16_EveryExtractorScansMarkup ==
    (Scanned /\ SubtitleEntries(service_name, network_items) = {} /\ Truthy(track_src))
      => (/\ Truthy(data.subtitle_url)
          /\ StartsWithHttp(track_src) => data.subtitle_url = track_src)

\* C17: when the subtitle URL comes from the page markup and the src of the
\* track is relative, the subtitle URL is the scheme and host of the page URL
\* given to the extractor followed by the src, whatever entries were recorded.
C17_RelativeSrcAgainstPageOrigin ==
    (/\ Scanned
     /\ SubtitleEntries(service_name, network_items) = {}
     /\ Truthy(data.subtitle_url)
     /\ Truthy(track_src)
     /\ ~StartsWithHttp(track_src))
      => data.subtitle_url = <<Scheme>> \o Netloc(url) \o track_src

Last(S) == CHOOSE i \in S : \A j \in S : j <= i

\* C18: the manifest URL of the result is the last recorded entry with a
\* manifest marker; no entry with a manifest marker is the subtitle URL, also
\* when it carries a subtitle marker as well; and when some entry without a
\* manifest marker carries a subtitle marker, the subtitle URL is the last
\* such entry.
C18_LastMatchWins ==
    Scanned =>
      LET M == ManifestEntries(service_name, network_items)
          S == SubtitleEntries(service_name, network_items)
      IN  /\ M # {}
          /\ data.mpd_url = network_items[Last(M)]
          /\ \A i \in M : data.subtitle_url # network_items[i]
          /\ S # {} => data.subtitle_url = network_items[Last(S)]

C18_Witness ==
    /\ Scanned
    /\ Len(network_items) = 3
    /\ ManifestEntries(service_name, network_items) = {1, 3}
    /\ SubtitleEntries(service_name, network_items) = {2}
    /\ network_items[1] # network_items[3]
    /\ IsSubtitle(service_name, network_items[3])
    /\ data.mpd_url = network_items[3]
    /\ data.subtitle_url = network_items[2]

PipelineSteps == {"extractor", "resolver", "prompt", "download_tool", "remux"}

ExtractorFailed ==
    calls["extractor"] > 0 /\ ~(data.kind = "dict" /\ Truthy(data.mpd_url))

ResolverFailed == calls["resolver"] > 0 /\ ~Truthy(drm_key)

ToolFailed ==
    calls["download_tool"] > 0 /\ ~(tool.exit = 0 /\ (tool.mkv \/ tool.mp4))

\* C19: within one process_url call the extractor, the key resolver, the
\* operator prompt, the download tool and the remux tool are each invoked at
\* most once, and once one of them has failed none of the later ones runs.
C19_NoRetryNoLaterStep ==
    /\ \A c \in PipelineSteps : calls[c] <= 1
    /\ pc # "exited" =>
          /\ ExtractorFailed => \A c \in PipelineSteps \ {"extractor"} : calls[c] = 0
          /\ ResolverFailed => (calls["download_tool"] = 0 /\ calls["remux"] = 0)
          /\ ToolFailed => calls["remux"] = 0

C19_Witness ==
    /\ pc = "cleanup"
    /\ calls["extractor"] = 1
    /\ calls["resolver"] = 1
    /\ calls["prompt"] = 1
    /\ ResolverFailed
    /\ outcome = "False"
    /\ calls["download_tool"] = 0

\* C20: the remux tool is invoked only when a subtitle URL was extracted, the
\* subtitle download returned a path and the subtitle file exists, and only
\* once the download tool has exited zero and its output file was found; the
\* subtitle step never ends the job as failed: whether the download worked or
\* failed it hands over to the download tool, and only an operator interrupt
\* escaping it ends the job, as an exception.
C20_RemuxOnlyWithSubtitle ==
    /\ []((calls["remux"] > 0 /\ pc # "exited")
            => (/\ Truthy(data.subtitle_url)
                /\ Truthy(subtitle_path)
                /\ tool.sub_exists
                /\ tool.exit = 0
                /\ (tool.mkv \/ tool.mp4)))
    /\ [][pc = "subtitle"
            => (/\ calls' = calls
                /\ \/ pc' = "download" /\ outcome' = "none"
                   \/ pc' = "cleanup" /\ outcome' = "exception"
                      /\ Truthy(data.subtitle_url) /\ subtitle_path' = NoneVal)]_vars

C20_Witness ==
    /\ pc = "cleanup"
    /\ calls["remux"] = 1
    /\ Truthy(data.subtitle_url)
    /\ Truthy(subtitle_path)
    /\ tool.sub_exists
    /\ tool.exit = 0
    /\ outcome = "True"

\* C21: on success the file the download tool produced has been renamed to
\* the final path, and the extension of the final name is the extension
\* (mkv or mp4) of that file.
C21_FinalKeepsContainer ==
    outcome = "True"
      => (/\ calls["rename"] = 1
          /\ tool.exit = 0
          /\ tool.final = ExpectedOutput(tool))

\* the headers whose entry a step has added or changed
Touched ==
    {h \in DOMAIN widevine_data' :
        h \notin DOMAIN widevine_data \/ widevine_data'[h] # widevine_data[h]}

\* C22: the cache maps each header to one value; while the program runs no
\* step removes an entry, and an entry is added or changed only by a
\* resolution for that very header whose interactive answer holds ':' (the
\* entries of all other headers stay as they were).
C22_EntriesChangeOnlyByValidAnswer ==
    [][runs' = runs
         => (/\ DOMAIN widevine_data \subseteq DOMAIN widevine_data'
             /\ \A h \in Touched :
                   /\ ResolverRuns
                   /\ h = data.pssh
                   /\ answer' # NoneVal
                   /\ Contains(Strip(answer'), ":")
                   /\ widevine_data'[h] = Strip(answer'))]_vars

C22_Witness ==
    /\ pc = "subtitle"
    /\ calls["cache_write"] = 1
    /\ answer # NoneVal
    /\ widevine_data[data.pssh] = Strip(answer)
    /\ \E h \in DOMAIN widevine_data : h # data.pssh /\ widevine_data[h] = CachedKey

\* C23: process_url returns True only after a provider was detected, the
\* extractor returned a manifest URL, the resolver returned a non-empty key,
\* the download tool exited zero, its output file was found and the file was
\* renamed to the final path, each step starting only after the one before
\* it succeeded; the download tool never starts without a non-empty key.
C23_SuccessNeedsEveryStep ==
    /\ []((outcome = "True" /\ pc = "cleanup")
            => (/\ service_name # "None"
                /\ data.kind = "dict"
                /\ Truthy(data.mpd_url)
                /\ Truthy(drm_key)
                /\ tool.exit = 0
                /\ (tool.mkv \/ tool.mp4)
                /\ tool.final # "none"))
    /\ [](outcome = "True"
            => \A c \in {"extractor", "resolver", "download_tool", "rename"} :
                  calls[c] = 1)
    /\ [][/\ calls'["extractor"] > calls["extractor"] => service_name # "None"
          /\ calls'["resolver"] > calls["resolver"]
                => (calls["extractor"] = 1 /\ data.kind = "dict" /\ Truthy(data.mpd_url))
          /\ calls'["download_tool"] > calls["download_tool"]
                => (calls["resolver"] = 1 /\ Truthy(drm_key))
          /\ calls'["rename"] > calls["rename"]
                => (/\ calls'["download_tool"] = 1
                    /\ tool'.exit = 0
                    /\ (tool'.mkv \/ tool'.mp4))]_vars

C23_Witness ==
    /\ pc = "cleanup"
    /\ outcome = "True"
    /\ calls["prompt"] = 1
    /\ Truthy(drm_key)
    /\ Truthy(data.mpd_url)
    /\ tool.exit = 0
    /\ calls["rename"] = 1

====
